---------------------------- MODULE Spec2Model ----------------------------
(***************************************************************************)
(* SQL Data Lineage Visualizer: the layout engine of the LineageGraph      *)
(* component (connected components, longest-path depths, coordinates),     *)
(* and the interaction layer (drag, edge selection, edge geometry).        *)
(*                                                                         *)
(* Coordinates are kept in HALF PIXELS (every x, y, height below is twice  *)
(* the pixel value of the source): the source divides odd integers by two  *)
(* (line 281), and half pixels keep that exact in integer arithmetic.      *)
(***************************************************************************)
EXTENDS Integers, Sequences, FiniteSets, TLC

\* ------------------------------------------------------------------------
\* Bounds of the model
\* ------------------------------------------------------------------------
MaxNodes == 4
MaxEdges == 4
MaxViewEdges == 2
MaxDrags == 2

\* ------------------------------------------------------------------------
\* Program constants (pixels)
\* ------------------------------------------------------------------------
NODE_WIDTH == 256
HEADER_HEIGHT == 60
COLUMN_HEIGHT == 28

\* ------------------------------------------------------------------------
\* Generic helpers: JS Map, Array.prototype.sort, Math.min / Math.max
\* ------------------------------------------------------------------------
MapHas(m, k) == k \in DOMAIN m

\* m.get(k) ?? d, and (m.get(k) || d) where the stored values are never falsy
\* unless equal to d
GetOr(m, k, d) == IF k \in DOMAIN m THEN m[k] ELSE d

MapSet(m, k, v) == [x \in (DOMAIN m) \cup {k} |-> IF x = k THEN v ELSE m[x]]

Max(a, b) == IF a >= b THEN a ELSE b

SetMin(S) == CHOOSE x \in S : \A y \in S : x <= y

SetMax(S) == CHOOSE x \in S : \A y \in S : x >= y

Range(s) == {s[k] : k \in 1..Len(s)}

\* Insert x (of key kx) into the sorted sequence s after every element whose key
\* is <= kx: a stable insertion, equal keys keep their arrival order as
\* Array.prototype.sort does.  key(y) is given as a function on the elements.
RECURSIVE InsertByKey(_, _, _, _)
InsertByKey(s, x, kx, key) ==
    IF s = <<>> THEN <<x>>
    ELSE IF key[Head(s)] <= kx
         THEN <<Head(s)>> \o InsertByKey(Tail(s), x, kx, key)
         ELSE <<x>> \o s

RECURSIVE SortByKey(_, _)
SortByKey(s, key) ==
    IF s = <<>> THEN <<>>
    ELSE LET rest == SortByKey(SubSeq(s, 1, Len(s) - 1), key)
             x == s[Len(s)]
         IN InsertByKey(rest, x, key[x], key)

\* array.sort((a,b) => (nodeOrder.get(a) || 0) - (nodeOrder.get(b) || 0))
SortByOrder(s, nodeOrder) ==
    SortByKey(s, [x \in Range(s) |-> GetOr(nodeOrder, x, 0)])

\* ------------------------------------------------------------------------
\* Graph model (types.ts)
\* ------------------------------------------------------------------------
NodeIds == <<"A", "B", "C", "D", "E", "F">>
UnknownId == "X"

MkNode(id, columns) == [id |-> id, columns |-> columns]

MkEdge(s, sc, t, tc) ==
    [sourceNodeId |-> s, sourceColumn |-> sc, targetNodeId |-> t, targetColumn |-> tc]

IdsOf(data) == {data.nodes[k].id : k \in 1..Len(data.nodes)}

\* data.nodes.forEach((node, index) => nodeOrder.set(node.id, index))
NodeOrderOf(data) ==
    [id \in IdsOf(data) |->
        SetMax({k \in 1..Len(data.nodes) : data.nodes[k].id = id}) - 1]

\* ------------------------------------------------------------------------
\* nodeDepths, step 1: undirected adjacency
\* ------------------------------------------------------------------------
\* adj.get(k)?.push(v)
PushIfKnown(adj, k, v) ==
    IF k \in DOMAIN adj THEN [adj EXCEPT ![k] = Append(@, v)] ELSE adj

\* mutant of BuildAdj: each edge contributes its forward direction only
RECURSIVE BuildAdjDirected(_, _)
BuildAdjDirected(adj, edges) ==
    IF edges = <<>> THEN adj
    ELSE LET e == Head(edges)
         IN BuildAdjDirected(PushIfKnown(adj, e.sourceNodeId, e.targetNodeId), Tail(edges))

RECURSIVE BuildAdj(_, _)
BuildAdj(adj, edges) ==
    IF edges = <<>> THEN adj
    ELSE LET e == Head(edges)
             a1 == PushIfKnown(adj, e.sourceNodeId, e.targetNodeId)
             a2 == PushIfKnown(a1, e.targetNodeId, e.sourceNodeId)
         IN BuildAdj(a2, Tail(edges))

AdjOf(data) == BuildAdj([id \in IdsOf(data) |-> <<>>], data.edges)

\* ------------------------------------------------------------------------
\* nodeDepths as a step machine.  The record st holds the local variables of
\* the useMemo body; every step is one iteration of one of its loops.
\* Components and queues hold node ids (the source holds the Node objects and
\* reads only their id).  head counts the dequeued elements.
\* offsets and dequeued are history fields: the depthOffset each component was
\* given (line 236) and the ids the topological loop dequeued (line 216).
\* ------------------------------------------------------------------------
DepthsInit(data) ==
    [pc |-> IF Len(data.nodes) = 0 THEN "done" ELSE "scan",
     i |-> 1,
     visited |-> {},
     components |-> <<>>,
     component |-> <<>>,
     queue |-> <<>>,
     head |-> 0,
     c |-> 1,
     depths |-> <<>>,
     inDegree |-> <<>>,
     compAdj |-> <<>>,
     finalDepths |-> <<>>,
     depthOffset |-> 0,
     offsets |-> <<>>,
     dequeued |-> {}]

\* for (const startNode of data.nodes) { if (!visited.has(startNode.id)) ... }
ScanStep(st, data) ==
    IF st.i > Len(data.nodes)
    THEN [st EXCEPT !.pc = "sort"]
    ELSE LET id == data.nodes[st.i].id IN
         IF id \notin st.visited
         THEN [st EXCEPT !.pc = "bfs", !.component = <<>>, !.queue = <<id>>,
                         !.head = 0, !.visited = @ \cup {id}]
         ELSE [st EXCEPT !.i = @ + 1]

\* mutant of VisitNeighbors: a pushed neighbour is not marked visited
RECURSIVE VisitNeighborsNoMark(_, _, _, _)
VisitNeighborsNoMark(vs, visited, queue, data) ==
    IF vs = <<>> THEN <<visited, queue>>
    ELSE LET vId == Head(vs) IN
         IF vId \notin visited
         THEN VisitNeighborsNoMark(Tail(vs), visited,
                                   IF vId \in IdsOf(data) THEN Append(queue, vId) ELSE queue,
                                   data)
         ELSE VisitNeighborsNoMark(Tail(vs), visited, queue, data)

\* for (const vId of adj.get(uNode.id) || []) { ... }: <<visited, queue>> after it
RECURSIVE VisitNeighbors(_, _, _, _)
VisitNeighbors(vs, visited, queue, data) ==
    IF vs = <<>> THEN <<visited, queue>>
    ELSE LET vId == Head(vs) IN
         IF vId \notin visited
         THEN VisitNeighbors(Tail(vs), visited \cup {vId},
                             IF vId \in IdsOf(data) THEN Append(queue, vId) ELSE queue,
                             data)
         ELSE VisitNeighbors(Tail(vs), visited, queue, data)

\* one iteration of while (head < queue.length), or the loop's exit
BfsStep(st, data) ==
    IF st.head < Len(st.queue)
    THEN LET u == st.queue[st.head + 1]
             adj == AdjOf(data)
             r == VisitNeighbors(GetOr(adj, u, <<>>), st.visited, st.queue, data)
         IN [st EXCEPT !.head = @ + 1, !.component = Append(@, u),
                       !.visited = r[1], !.queue = r[2]]
    ELSE [st EXCEPT !.pc = "scan", !.components = Append(@, st.component),
                    !.i = @ + 1]

\* components.sort((compA, compB) => minOrderA - minOrderB)
MinOrder(comp, nodeOrder) == SetMin({nodeOrder[id] : id \in Range(comp)})

\* mutant of SortComponents: the comparator is minOrderB - minOrderA
SortComponentsReversed(components, nodeOrder) ==
    LET idx == 1..Len(components)
        sorted == SortByKey([k \in idx |-> k],
                            [k \in idx |-> 0 - MinOrder(components[k], nodeOrder)])
    IN [k \in idx |-> components[sorted[k]]]

SortComponents(components, nodeOrder) ==
    LET idx == 1..Len(components)
        sorted == SortByKey([k \in idx |-> k],
                            [k \in idx |-> MinOrder(components[k], nodeOrder)])
    IN [k \in idx |-> components[sorted[k]]]

SortStep(st, data) ==
    [st EXCEPT !.pc = "setup", !.c = 1,
               !.components = SortComponents(@, NodeOrderOf(data))]

\* mutant of ComponentEdges: an edge with one end point in the component is kept
ComponentEdgesEitherEnd(data, ids) ==
    SelectSeq(data.edges, LAMBDA e : e.sourceNodeId \in ids \/ e.targetNodeId \in ids)

\* data.edges.filter(e => componentNodeIds.has(e.sourceNodeId) &&
\*                        componentNodeIds.has(e.targetNodeId))
ComponentEdges(data, ids) ==
    SelectSeq(data.edges, LAMBDA e : e.sourceNodeId \in ids /\ e.targetNodeId \in ids)

\* componentEdges.forEach(edge => { inDegree ...; compAdj ... }): <<inDegree, compAdj>>
RECURSIVE CountEdges(_, _, _)
CountEdges(edges, inDegree, compAdj) ==
    IF edges = <<>> THEN <<inDegree, compAdj>>
    ELSE LET e == Head(edges) IN
         CountEdges(Tail(edges),
                    MapSet(inDegree, e.targetNodeId, GetOr(inDegree, e.targetNodeId, 0) + 1),
                    PushIfKnown(compAdj, e.sourceNodeId, e.targetNodeId))

\* lines 185-212: the per-component tables and the seeded, sorted queue
SetupStep(st, data) ==
    IF st.c > Len(st.components)
    THEN [st EXCEPT !.pc = "done"]
    ELSE LET component == st.components[st.c]
             ids == Range(component)
             r == CountEdges(ComponentEdges(data, ids),
                             [id \in ids |-> 0], [id \in ids |-> <<>>])
             inDegree == r[1]
             seeds == SelectSeq(component, LAMBDA id : GetOr(inDegree, id, 0) = 0)
         IN [st EXCEPT !.pc = "kahn", !.inDegree = inDegree, !.compAdj = r[2],
                       !.depths = [id \in Range(seeds) |-> 0],
                       !.queue = SortByOrder(seeds, NodeOrderOf(data)),
                       !.head = 0]

\* mutant of Relax: the successor is given its predecessor's depth
RelaxNoIncrement(depths, v, u_depth) == MapSet(depths, v, Max(GetOr(depths, v, 0), u_depth))

\* mutant of Relax: the first depth a node is given is kept (shortest path)
RelaxShortest(depths, v, u_depth) ==
    IF MapHas(depths, v) THEN depths ELSE MapSet(depths, v, u_depth + 1)

\* depths.set(v, Math.max(depths.get(v) || 0, u_depth + 1))
Relax(depths, v, u_depth) == MapSet(depths, v, Max(GetOr(depths, v, 0), u_depth + 1))

\* for (const v of neighbors) { ... }: <<depths, inDegree, queue>> after it
RECURSIVE RelaxNeighbors(_, _, _, _, _)
RelaxNeighbors(vs, u_depth, depths, inDegree, queue) ==
    IF vs = <<>> THEN <<depths, inDegree, queue>>
    ELSE LET v == Head(vs)
             newDegree == inDegree[v] - 1
         IN RelaxNeighbors(Tail(vs), u_depth,
                           Relax(depths, v, u_depth),
                           MapSet(inDegree, v, newDegree),
                           IF newDegree = 0 THEN Append(queue, v) ELSE queue)

\* one iteration of the topological while loop (lines 215-229), or its exit
KahnStep(st, data) ==
    IF st.head < Len(st.queue)
    THEN LET u == st.queue[st.head + 1]
             u_depth == st.depths[u]
             neighbors == SortByOrder(GetOr(st.compAdj, u, <<>>), NodeOrderOf(data))
             r == RelaxNeighbors(neighbors, u_depth, st.depths, st.inDegree, st.queue)
         IN [st EXCEPT !.head = @ + 1, !.dequeued = @ \cup {u},
                       !.compAdj = MapSet(@, u, neighbors),
                       !.depths = r[1], !.inDegree = r[2], !.queue = r[3]]
    ELSE [st EXCEPT !.pc = "finish"]

\* mutant of FallbackDepth: a node without a depth is put at depth 1
FallbackDepthOne(depths, id) == IF MapHas(depths, id) THEN depths[id] ELSE 1

\* if (!depths.has(node.id)) depths.set(node.id, 0); // Handle cycles
FallbackDepth(depths, id) == IF MapHas(depths, id) THEN depths[id] ELSE 0

\* mutant of NextOffset: the next component starts right after this one
NextOffsetNoGap(depthOffset, maxDepthInComponent) == depthOffset + maxDepthInComponent + 1

\* depthOffset += maxDepthInComponent + 2
NextOffset(depthOffset, maxDepthInComponent) == depthOffset + maxDepthInComponent + 2

\* lines 231-240: fallback, final depths, and the offset of the next component
FinishStep(st, data) ==
    LET component == st.components[st.c]
        ids == Range(component)
        depths == [id \in ids |-> FallbackDepth(st.depths, id)]
        maxDepthInComponent == SetMax({0} \cup {depths[id] : id \in ids})
    IN [st EXCEPT !.pc = "setup", !.c = @ + 1, !.depths = depths,
                  !.finalDepths = [id \in (DOMAIN @) \cup ids |->
                                      IF id \in ids THEN depths[id] + st.depthOffset
                                      ELSE @[id]],
                  !.offsets = Append(@, st.depthOffset),
                  !.depthOffset = NextOffset(@, maxDepthInComponent)]

DepthsStep(st, data) ==
    CASE st.pc = "scan" -> ScanStep(st, data)
      [] st.pc = "bfs" -> BfsStep(st, data)
      [] st.pc = "sort" -> SortStep(st, data)
      [] st.pc = "setup" -> SetupStep(st, data)
      [] st.pc = "kahn" -> KahnStep(st, data)
      [] st.pc = "finish" -> FinishStep(st, data)
      [] OTHER -> st

RECURSIVE DepthsRun(_, _)
DepthsRun(st, data) == IF st.pc = "done" THEN st ELSE DepthsRun(DepthsStep(st, data), data)

\* the value of the nodeDepths memo, with the history of how it was computed
NodeDepthsRun(data) == DepthsRun(DepthsInit(data), data)

nodeDepths(data) == NodeDepthsRun(data).finalDepths

\* ------------------------------------------------------------------------
\* The layout effect (lines 246-329).  Lengths are in half pixels: Px(n) is n
\* pixels.  An optional number (x?: number) is <<>> when undefined, <<v>> else.
\* ------------------------------------------------------------------------
Px(n) == 2 * n

None == <<>>

Some(v) == <<v>>

IsSome(o) == o # <<>>

Val(o) == o[1]

\* (o ?? 0)
ValOrZero(o) == IF IsSome(o) THEN o[1] ELSE 0

\* HEADER_HEIGHT + (node.columns.length * COLUMN_HEIGHT)
NodeHeight(node) == Px(HEADER_HEIGHT + Len(node.columns) * COLUMN_HEIGHT)

xSpacing == NODE_WIDTH + 120

verticalMargin == 40

padding == 50

\* JSON.parse(JSON.stringify(data.nodes)) as D3Node[]
InitialNodes(data) ==
    [k \in 1..Len(data.nodes) |->
        [id |-> data.nodes[k].id, columns |-> data.nodes[k].columns,
         x |-> None, y |-> None, fx |-> None, fy |-> None]]

\* mutant of StackColumn: the boxes of a column are stacked without a margin
RECURSIVE StackColumnNoMargin(_, _, _)
StackColumnNoMargin(nodesInDepth, currentY, ys) ==
    IF nodesInDepth = <<>> THEN ys
    ELSE LET node == Head(nodesInDepth)
             nodeHeight == NodeHeight(node)
         IN StackColumnNoMargin(Tail(nodesInDepth),
                                currentY + nodeHeight,
                                MapSet(ys, node.id, currentY + nodeHeight \div 2))

\* nodesInDepth.forEach(node => { node.y = currentY + nodeHeight / 2; ... }):
\* the y of every node of one depth column, as a map id -> y
RECURSIVE StackColumn(_, _, _)
StackColumn(nodesInDepth, currentY, ys) ==
    IF nodesInDepth = <<>> THEN ys
    ELSE LET node == Head(nodesInDepth)
             nodeHeight == NodeHeight(node)
         IN StackColumn(Tail(nodesInDepth),
                        currentY + nodeHeight + Px(verticalMargin),
                        MapSet(ys, node.id, currentY + nodeHeight \div 2))

RECURSIVE SumHeights(_)
SumHeights(ns) == IF ns = <<>> THEN 0 ELSE NodeHeight(Head(ns)) + SumHeights(Tail(ns))

\* lines 270-288 for one depth column
ColumnYs(nodesInDepth, height) ==
    LET totalContentHeight == SumHeights(nodesInDepth)
        totalMargin == (Len(nodesInDepth) - 1) * Px(verticalMargin)
        totalColumnHeight == totalContentHeight + totalMargin
        \* (height - totalColumnHeight) / 2: both are whole pixels, so the
        \* difference in half pixels is even and the division is exact
        currentY == (Px(height) - totalColumnHeight) \div 2
    IN StackColumn(nodesInDepth, currentY, <<>>)

\* lines 259-293: every node's provisional y and x
ProvisionalNodes(data, depths, height) ==
    LET initialNodes == InitialNodes(data)
        nodeOrder == NodeOrderOf(data)
        depthOf(node) == GetOr(depths, node.id, 0)
        nodesInDepth(d) ==
            LET group == SelectSeq(initialNodes, LAMBDA n : depthOf(n) = d)
                ids == SortByOrder([k \in 1..Len(group) |-> group[k].id], nodeOrder)
            IN [k \in 1..Len(group) |->
                   CHOOSE n \in Range(group) : n.id = ids[k]]
    IN [k \in 1..Len(initialNodes) |->
          LET node == initialNodes[k]
              ys == ColumnYs(nodesInDepth(depthOf(node)), height)
          IN [node EXCEPT !.y = IF MapHas(ys, node.id) THEN Some(ys[node.id]) ELSE None,
                          !.x = Some(Px(depthOf(node) * xSpacing + 50) + NODE_WIDTH)]]

\* mutant of NormalizeOffset: the shift brings the tightest box to 0, not to
\* the padding
NormalizeOffsetNoPadding(min) == IF min < Px(padding) THEN -min ELSE 0

\* minX < padding ? -minX + padding : 0
NormalizeOffset(min) == IF min < Px(padding) THEN -min + Px(padding) ELSE 0

\* lines 295-319: shift so that no box starts left of or above the padding
Normalize(initialNodes) ==
    IF Len(initialNodes) > 0
    THEN LET idx == 1..Len(initialNodes)
             minX == SetMin({ValOrZero(initialNodes[k].x) - NODE_WIDTH : k \in idx})
             minY == SetMin({ValOrZero(initialNodes[k].y)
                               - NodeHeight(initialNodes[k]) \div 2 : k \in idx})
             offsetX == NormalizeOffset(minX)
             offsetY == NormalizeOffset(minY)
         IN IF offsetX > 0 \/ offsetY > 0
            THEN [k \in idx |->
                    [initialNodes[k] EXCEPT !.x = Some(ValOrZero(@) + offsetX),
                                            !.y = Some(ValOrZero(@) + offsetY)]]
            ELSE initialNodes
    ELSE initialNodes

\* the argument of setNodes at line 321
LayoutNodes(data, depths, height) == Normalize(ProvisionalNodes(data, depths, height))

\* ------------------------------------------------------------------------
\* Interaction and geometry (lines 124-134, 331-337, 413-427, 462-489)
\* ------------------------------------------------------------------------
\* mutant of HandleNodeDrag: the id test is lost and every node is moved
HandleNodeDragAll(currentNodes, nodeId, position) ==
    [k \in 1..Len(currentNodes) |->
        [currentNodes[k] EXCEPT !.x = Some(position.x), !.y = Some(position.y),
                                !.fx = Some(position.x), !.fy = Some(position.y)]]

\* mutant of HandleNodeDrag: an id that no node has gets a node of its own
HandleNodeDragUpsert(currentNodes, nodeId, position) ==
    IF \E k \in 1..Len(currentNodes) : currentNodes[k].id = nodeId
    THEN [k \in 1..Len(currentNodes) |->
            IF currentNodes[k].id = nodeId
            THEN [currentNodes[k] EXCEPT !.x = Some(position.x), !.y = Some(position.y),
                                         !.fx = Some(position.x), !.fy = Some(position.y)]
            ELSE currentNodes[k]]
    ELSE Append(currentNodes,
                [id |-> nodeId, columns |-> <<>>,
                 x |-> Some(position.x), y |-> Some(position.y),
                 fx |-> Some(position.x), fy |-> Some(position.y)])

\* mutant of HandleNodeDrag: the nodes that are not dragged lose their pin
HandleNodeDragUnpinOthers(currentNodes, nodeId, position) ==
    [k \in 1..Len(currentNodes) |->
        IF currentNodes[k].id = nodeId
        THEN [currentNodes[k] EXCEPT !.x = Some(position.x), !.y = Some(position.y),
                                     !.fx = Some(position.x), !.fy = Some(position.y)]
        ELSE [currentNodes[k] EXCEPT !.fx = None, !.fy = None]]

\* currentNodes.map(n => n.id === nodeId ? {...n, x, y, fx: x, fy: y} : n)
HandleNodeDrag(currentNodes, nodeId, position) ==
    [k \in 1..Len(currentNodes) |->
        IF currentNodes[k].id = nodeId
        THEN [currentNodes[k] EXCEPT !.x = Some(position.x), !.y = Some(position.y),
                                     !.fx = Some(position.x), !.fy = Some(position.y)]
        ELSE currentNodes[k]]

\* the drag handler of NodeComponent (lines 46-53): the position it hands to
\* onNodeDrag, from the node of the last render (currentNodeRef.current)
DragPosition(latestNode, dx, dy) ==
    [x |-> ValOrZero(latestNode.x) + Px(dx), y |-> ValOrZero(latestNode.y) + Px(dy)]

\* new Map(nodes.map(n => [n.id, n])).get(id): the last node of that id
NodeMapHas(ns, id) == \E k \in 1..Len(ns) : ns[k].id = id

NodeMapGet(ns, id) == ns[SetMax({k \in 1..Len(ns) : ns[k].id = id})]

\* node.columns.findIndex(c => c.name === columnName), 0-based, -1 if absent
FindIndex(columns, columnName) ==
    IF \E k \in 1..Len(columns) : columns[k] = columnName
    THEN SetMin({k \in 1..Len(columns) : columns[k] = columnName}) - 1
    ELSE -1

getColumnYOffset(ns, nodeId, columnName) ==
    IF ~NodeMapHas(ns, nodeId) THEN 0
    ELSE LET columnIndex == FindIndex(NodeMapGet(ns, nodeId).columns, columnName) IN
         IF columnIndex = -1 THEN 0
         ELSE Px(HEADER_HEIGHT + columnIndex * COLUMN_HEIGHT) + COLUMN_HEIGHT

markerOffset == 10

\* mutant of EdgeEndPoints: equal center-x takes the forward sides
EdgeEndPointsForwardOnEqual(ns, edge, sourceNode, targetNode) ==
    LET sx == Val(sourceNode.x)
        tx == Val(targetNode.x)
        y1 == (Val(sourceNode.y) - NodeHeight(sourceNode) \div 2)
              + getColumnYOffset(ns, edge.sourceNodeId, edge.sourceColumn)
        y2 == (Val(targetNode.y) - NodeHeight(targetNode) \div 2)
              + getColumnYOffset(ns, edge.targetNodeId, edge.targetColumn)
    IN IF sx <= tx
       THEN [x1 |-> sx + NODE_WIDTH, y1 |-> y1,
             x2 |-> tx - NODE_WIDTH - Px(markerOffset), y2 |-> y2]
       ELSE [x1 |-> sx - NODE_WIDTH, y1 |-> y1,
             x2 |-> tx + NODE_WIDTH + Px(markerOffset), y2 |-> y2]

\* lines 471-484: the end points of the path between two placed nodes
EdgeEndPoints(ns, edge, sourceNode, targetNode) ==
    LET sx == Val(sourceNode.x)
        tx == Val(targetNode.x)
        y1 == (Val(sourceNode.y) - NodeHeight(sourceNode) \div 2)
              + getColumnYOffset(ns, edge.sourceNodeId, edge.sourceColumn)
        y2 == (Val(targetNode.y) - NodeHeight(targetNode) \div 2)
              + getColumnYOffset(ns, edge.targetNodeId, edge.targetColumn)
    IN IF sx < tx
       THEN [x1 |-> sx + NODE_WIDTH, y1 |-> y1,
             x2 |-> tx - NODE_WIDTH - Px(markerOffset), y2 |-> y2]
       ELSE [x1 |-> sx - NODE_WIDTH, y1 |-> y1,
             x2 |-> tx + NODE_WIDTH + Px(markerOffset), y2 |-> y2]

\* mutant of EdgeGeometry: an edge from a node to itself is not drawn
EdgeGeometryNoSelfLoop(ns, edge) ==
    IF \/ ~NodeMapHas(ns, edge.sourceNodeId) \/ ~NodeMapHas(ns, edge.targetNodeId)
       \/ edge.sourceNodeId = edge.targetNodeId
    THEN None
    ELSE LET sourceNode == NodeMapGet(ns, edge.sourceNodeId)
             targetNode == NodeMapGet(ns, edge.targetNodeId)
         IN IF ~IsSome(sourceNode.x) \/ ~IsSome(sourceNode.y)
               \/ ~IsSome(targetNode.x) \/ ~IsSome(targetNode.y)
            THEN None
            ELSE Some(EdgeEndPoints(ns, edge, sourceNode, targetNode))

\* lines 463-484: None when the edge is not drawn, else Some of its end points
EdgeGeometry(ns, edge) ==
    IF ~NodeMapHas(ns, edge.sourceNodeId) \/ ~NodeMapHas(ns, edge.targetNodeId)
    THEN None
    ELSE LET sourceNode == NodeMapGet(ns, edge.sourceNodeId)
             targetNode == NodeMapGet(ns, edge.targetNodeId)
         IN IF ~IsSome(sourceNode.x) \/ ~IsSome(sourceNode.y)
               \/ ~IsSome(targetNode.x) \/ ~IsSome(targetNode.y)
            THEN None
            ELSE Some(EdgeEndPoints(ns, edge, sourceNode, targetNode))

\* mutant of IsRelatedToSelection: the column names are not compared
IsRelatedByNodeOnly(currentEdge, sel) ==
    \/ currentEdge.sourceNodeId = sel.sourceNodeId
    \/ currentEdge.targetNodeId = sel.targetNodeId

\* isRelatedToSelection (lines 418-420)
IsRelatedToSelection(currentEdge, sel) ==
    \/ currentEdge.sourceNodeId = sel.sourceNodeId /\ currentEdge.sourceColumn = sel.sourceColumn
    \/ currentEdge.targetNodeId = sel.targetNodeId /\ currentEdge.targetColumn = sel.targetColumn

\* getEdgeStyle(currentEdge); strokeWidth in tenths, opacity in tenths
getEdgeStyle(currentEdge, selEdge) ==
    IF ~IsSome(selEdge)
    THEN [stroke |-> "#9ca3af", strokeWidth |-> 15, opacity |-> 10, isRelated |-> FALSE]
    ELSE IF IsRelatedToSelection(currentEdge, Val(selEdge))
         THEN [stroke |-> "#2563eb", strokeWidth |-> 25, opacity |-> 10, isRelated |-> TRUE]
         ELSE [stroke |-> "#d1d5db", strokeWidth |-> 10, opacity |-> 6, isRelated |-> FALSE]

\* ------------------------------------------------------------------------
\* Input graphs.  Node ids are opaque, so the k-th node of the list is named
\* NodeIds[k]; an edge end is a known id or UnknownId.
\* ------------------------------------------------------------------------
EndPoints(n) == [k \in 1..(n + 1) |-> IF k <= n THEN NodeIds[k] ELSE UnknownId]

\* the p-th (source, target) pair over n known ids
PairEdge(n, p, sc, tc) ==
    LET ep == EndPoints(n)
    IN MkEdge(ep[((p - 1) \div (n + 1)) + 1], sc, ep[((p - 1) % (n + 1)) + 1], tc)

\* the non-decreasing sequences of length k over lo..hi: one edge sequence
\* for every multiset of (source, target) pairs
RECURSIVE SortedSeqs(_, _, _)
SortedSeqs(k, lo, hi) ==
    IF k = 0 THEN {<<>>}
    ELSE UNION {{<<p>> \o s : s \in SortedSeqs(k - 1, p, hi)} : p \in lo..hi}

\* the graph of n nodes without columns whose edges are the pairs s[1], s[2], ...
DepthGraph(n, s) ==
    [nodes |-> [j \in 1..n |-> MkNode(NodeIds[j], <<>>)],
     edges |-> [j \in 1..Len(s) |-> PairEdge(n, s[j], "a", "a")]]

\* ------------------------------------------------------------------------
\* State
\* ------------------------------------------------------------------------
VARIABLES
    lineageData,    \* App: the graph held, None or Some(graph)
    isLoading,      \* App: an extraction is in flight
    error,          \* App: an error message is shown
    selectedNode,   \* App: the node shown in the detail sidebar, None or Some
    height,         \* containerRef.current.clientHeight, in pixels
    nodes,          \* LineageGraph: useState<D3Node[]>
    selectedEdge,   \* LineageGraph: useState<Edge | null>
    rendered,       \* the nodes of the last render (NodeComponent currentNodeRef)
    layoutPending,  \* the layout effect is scheduled and has not run
    dragCount,      \* drags delivered to this LineageGraph instance
    st              \* the locals of nodeDepths while it runs step by step

vars == <<lineageData, isLoading, error, selectedNode, height, nodes, selectedEdge,
          rendered, layoutPending, dragCount, st>>

appVars == <<isLoading, error, selectedNode, height>>

graphVars == <<nodes, selectedEdge, rendered, layoutPending, dragCount>>

\* ------------------------------------------------------------------------
\* SpecDepth: nodeDepths run one loop iteration at a time on every input graph
\* ------------------------------------------------------------------------
IdleGraphState ==
    /\ isLoading = FALSE
    /\ error = FALSE
    /\ selectedNode = None
    /\ height = 0
    /\ nodes = <<>>
    /\ selectedEdge = None
    /\ rendered = <<>>
    /\ layoutPending = FALSE
    /\ dragCount = 0

InitDepth ==
    /\ \E n \in 0..MaxNodes, k \in 0..MaxEdges :
          \E s \in SortedSeqs(k, 1, (n + 1) * (n + 1)) :
             /\ lineageData = Some(DepthGraph(n, s))
             /\ st = DepthsInit(DepthGraph(n, s))
    /\ IdleGraphState

StepAt(pc) ==
    /\ st.pc = pc
    /\ st' = DepthsStep(st, Val(lineageData))
    /\ UNCHANGED <<lineageData, appVars, graphVars>>

Scan == StepAt("scan")

Bfs == StepAt("bfs")

Sort == StepAt("sort")

Setup == StepAt("setup")

Kahn == StepAt("kahn")

Finish == StepAt("finish")

NextDepth == Scan \/ Bfs \/ Sort \/ Setup \/ Kahn \/ Finish

SpecDepth == InitDepth /\ [][NextDepth]_vars /\ WF_vars(NextDepth)

\* ------------------------------------------------------------------------
\* Spec: the application.  generateLineage replaces the graph; a new graph
\* mounts a new LineageGraph (App.tsx line 237: the key is the graph's JSON,
\* and the graph is null in between), whose layout effect runs once; then
\* renders, drags and edge selections interleave.
\* ------------------------------------------------------------------------
\* container heights (clientHeight, pixels): odd and smaller than a column
\* of two boxes plus padding, and larger than any column
Heights == {301, 900}

\* drag deltas (event.dx, event.dy), pixels
Deltas == {<<12, -7>>, <<-400, 30>>}

ColumnNames == {"a", "b"}

\* node lists of the graphs the extraction may return; a column is modelled by
\* its name (its type is never read by the layout)
ViewNodeLists ==
    {<<>>,
     <<MkNode("A", <<"a", "b">>)>>,
     <<MkNode("A", <<"a", "b">>), MkNode("B", <<"a">>)>>,
     <<MkNode("A", <<>>), MkNode("B", <<"a", "b">>)>>}

\* the q-th edge over n known ids: a (source, target) pair and two column names
ViewEdge(n, q) ==
    LET p == ((q - 1) \div 4) + 1
        c == (q - 1) % 4
    IN PairEdge(n, p, IF c \div 2 = 0 THEN "a" ELSE "b", IF c % 2 = 0 THEN "a" ELSE "b")

ViewGraph(ns, s) ==
    [nodes |-> ns, edges |-> [j \in 1..Len(s) |-> ViewEdge(Len(ns), s[j])]]

EmptyGraph == [nodes |-> <<>>, edges |-> <<>>]

NoMemo == DepthsInit(EmptyGraph)

Mounted == IsSome(lineageData)

\* the graph is under no overlay, so pointer events reach it: App.tsx lines
\* 218-225 cover it while an error is shown, and the backdrop of the detail
\* sidebar (NodeDetailSidebar.tsx lines 30-34) while a node is shown
Reachable == Mounted /\ ~error /\ selectedNode = None

Init ==
    /\ lineageData = None
    /\ isLoading = FALSE
    /\ error = FALSE
    /\ selectedNode = None
    /\ height \in Heights
    /\ nodes = <<>>
    /\ selectedEdge = None
    /\ rendered = <<>>
    /\ layoutPending = FALSE
    /\ dragCount = 0
    /\ st = NoMemo

\* generateLineage with a blank script (App.tsx lines 47-50)
EmptyScript ==
    /\ ~isLoading
    /\ error' = TRUE
    /\ UNCHANGED <<lineageData, isLoading, selectedNode, height, graphVars, st>>

\* generateLineage up to its await (App.tsx lines 52-54); the LineageGraph, if
\* any, unmounts and its state is gone
GenerateStart ==
    /\ ~isLoading
    /\ isLoading' = TRUE
    /\ error' = FALSE
    /\ lineageData' = None
    /\ nodes' = <<>>
    /\ selectedEdge' = None
    /\ rendered' = <<>>
    /\ layoutPending' = FALSE
    /\ dragCount' = 0
    /\ st' = NoMemo
    /\ UNCHANGED <<selectedNode, height>>

\* mutant of MountGraph: the layout effect is not scheduled
MountGraphNoLayout(g) ==
    /\ lineageData' = Some(g)
    /\ nodes' = <<>>
    /\ selectedEdge' = None
    /\ rendered' = <<>>
    /\ layoutPending' = FALSE
    /\ dragCount' = 0
    /\ st' = NodeDepthsRun(g)

\* the mount of LineageGraph for graph g: fresh state (lines 119-120), the
\* nodeDepths memo, a first render without nodes, the layout effect scheduled
MountGraph(g) ==
    /\ lineageData' = Some(g)
    /\ nodes' = <<>>
    /\ selectedEdge' = None
    /\ rendered' = <<>>
    /\ layoutPending' = TRUE
    /\ dragCount' = 0
    /\ st' = NodeDepthsRun(g)

\* the extraction returns a graph (App.tsx lines 157, 164)
ExtractionSucceeds ==
    /\ isLoading
    /\ \E ns \in ViewNodeLists, k \in 0..MaxViewEdges :
          \E s \in SortedSeqs(k, 1, 4 * (Len(ns) + 1) * (Len(ns) + 1)) :
             MountGraph(ViewGraph(ns, s))
    /\ isLoading' = FALSE
    /\ UNCHANGED <<error, selectedNode, height>>

\* the extraction throws (App.tsx lines 159-164)
ExtractionFails ==
    /\ isLoading
    /\ error' = TRUE
    /\ lineageData' = None
    /\ isLoading' = FALSE
    /\ UNCHANGED <<selectedNode, height, graphVars, st>>

\* the layout effect (lines 246-329), run once after the mount
LayoutEffect ==
    /\ Mounted
    /\ layoutPending
    /\ layoutPending' = FALSE
    /\ nodes' = IF Len(Val(lineageData).nodes) = 0 THEN nodes
                 ELSE LayoutNodes(Val(lineageData), st.finalDepths, height)
    /\ UNCHANGED <<lineageData, appVars, selectedEdge, rendered, dragCount, st>>

\* a re-render after setNodes: the NodeComponents get the current nodes
Render ==
    /\ Mounted
    /\ rendered # nodes
    /\ rendered' = nodes
    /\ UNCHANGED <<lineageData, appVars, nodes, selectedEdge, layoutPending, dragCount, st>>

\* one drag event on the box of node id (lines 46-53, 124-130)
Drag(id, d) ==
    /\ Reachable
    /\ NodeMapHas(rendered, id)
    /\ dragCount < MaxDrags
    /\ dragCount' = dragCount + 1
    /\ nodes' = HandleNodeDrag(nodes, id, DragPosition(NodeMapGet(rendered, id), d[1], d[2]))
    /\ UNCHANGED <<lineageData, appVars, selectedEdge, rendered, layoutPending, st>>

DragSome == Mounted /\ \E id \in IdsOf(Val(lineageData)), d \in Deltas : Drag(id, d)

\* a click on the path of edge k (lines 506-509); only a drawn edge has a path
SelectEdge(k) ==
    /\ Reachable
    /\ IsSome(EdgeGeometry(rendered, Val(lineageData).edges[k]))
    /\ selectedEdge' = Some(Val(lineageData).edges[k])
    /\ UNCHANGED <<lineageData, appVars, nodes, rendered, layoutPending, dragCount, st>>

SelectSome == Mounted /\ \E k \in 1..Len(Val(lineageData).edges) : SelectEdge(k)

\* a click that reaches the container (lines 365-368, 430)
ClearSelection ==
    /\ Reachable
    /\ selectedEdge' = None
    /\ UNCHANGED <<lineageData, appVars, nodes, rendered, layoutPending, dragCount, st>>

\* the node handed to onNodeClick, as the sidebar reads it (id and columns)
SidebarNode(node) == MkNode(node.id, node.columns)

\* a click on the box of node id (lines 76-79): onNodeClick(node) is App's
\* handleNodeClick (App.tsx lines 168-170); the click is not stopped and
\* bubbles to the container, whose onClick is handleClearSelection (line 430)
NodeClick(id) ==
    /\ Reachable
    /\ NodeMapHas(rendered, id)
    /\ selectedNode' = Some(SidebarNode(NodeMapGet(rendered, id)))
    /\ selectedEdge' = None
    /\ UNCHANGED <<lineageData, isLoading, error, height, nodes, rendered,
                   layoutPending, dragCount, st>>

NodeClickSome == Mounted /\ \E id \in IdsOf(Val(lineageData)) : NodeClick(id)

\* handleCloseSidebar (App.tsx lines 172-174), from the backdrop or the button
CloseSidebar ==
    /\ IsSome(selectedNode)
    /\ selectedNode' = None
    /\ UNCHANGED <<lineageData, isLoading, error, height, graphVars, st>>

\* handleNodeDrag called with an id that no node of the layout has (the
\* callback's contract; lines 124-130)
DragUnknown ==
    /\ Mounted
    /\ dragCount < MaxDrags
    /\ dragCount' = dragCount + 1
    /\ \E d \in Deltas :
          nodes' = HandleNodeDrag(nodes, UnknownId, [x |-> Px(d[1]), y |-> Px(d[2])])
    /\ UNCHANGED <<lineageData, appVars, selectedEdge, rendered, layoutPending, st>>

Next ==
    \/ EmptyScript
    \/ GenerateStart
    \/ ExtractionSucceeds
    \/ ExtractionFails
    \/ LayoutEffect
    \/ Render
    \/ DragSome
    \/ DragUnknown
    \/ SelectSome
    \/ ClearSelection
    \/ NodeClickSome
    \/ CloseSidebar

Spec == Init /\ [][Next]_vars

\* ------------------------------------------------------------------------
\* Graph theory the claims are stated in, independent of the code's tables
\* ------------------------------------------------------------------------
G == Val(lineageData)

DepthsDone == IsSome(lineageData) /\ st.pc = "done"

KnownEdges(data) ==
    {<<data.edges[k].sourceNodeId, data.edges[k].targetNodeId>> : k \in
        {j \in 1..Len(data.edges) : /\ data.edges[j].sourceNodeId \in IdsOf(data)
                                    /\ data.edges[j].targetNodeId \in IdsOf(data)}}

Succs(data, S) == {e[2] : e \in {f \in KnownEdges(data) : f[1] \in S}}

Preds(data, v) == {e[1] : e \in {f \in KnownEdges(data) : f[2] = v}}

Neighbours(data, S) ==
    Succs(data, S) \cup {e[1] : e \in {f \in KnownEdges(data) : f[2] \in S}}

\* the nodes reachable from S along directed edges, S included
RECURSIVE ReachFrom(_, _)
ReachFrom(data, S) ==
    LET T == S \cup Succs(data, S) IN IF T = S THEN S ELSE ReachFrom(data, T)

\* the nodes connected to S by edges taken as undirected, S included
RECURSIVE Connected(_, _)
Connected(data, S) ==
    LET T == S \cup Neighbours(data, S) IN IF T = S THEN S ELSE Connected(data, T)

\* v lies on a directed cycle (a self-loop is one)
OnCycle(data, v) == v \in ReachFrom(data, Succs(data, {v}))

\* v lies on a directed cycle or can be reached from a node that does
CycleTainted(data, v) ==
    \E w \in IdsOf(data) : OnCycle(data, w) /\ v \in ReachFrom(data, {w})

\* the length of the longest directed path ending at v (acyclic graphs only)
RECURSIVE LongestPathTo(_, _)
LongestPathTo(data, v) ==
    IF Preds(data, v) = {} THEN 0
    ELSE 1 + SetMax({LongestPathTo(data, u) : u \in Preds(data, v)})

\* what the finished computation says
CompIndex(id) == CHOOSE c \in 1..Len(st.components) : id \in Range(st.components[c])

SameComponent(a, b) == \E c \in 1..Len(st.components) : {a, b} \subseteq Range(st.components[c])

OffsetOf(id) == st.offsets[CompIndex(id)]

DepthOf(id) == st.finalDepths[id]

RelDepthOf(id) == DepthOf(id) - OffsetOf(id)

IndexOf(id) == NodeOrderOf(G)[id]

FirstIndexOfComponent(id) == SetMin({IndexOf(m) : m \in Range(st.components[CompIndex(id)])})

\* ------------------------------------------------------------------------
\* C1  Depth monotonicity
\* ------------------------------------------------------------------------
\* C1 as claimed: for every edge u->v between known nodes of one component,
\* depth(v) >= depth(u) + 1 unless v itself lies on a directed cycle.
C1_MonotoneUnlessOnCycle ==
    DepthsDone =>
        \A e \in KnownEdges(G) :
            (SameComponent(e[1], e[2]) /\ ~OnCycle(G, e[2]))
                => DepthOf(e[2]) >= DepthOf(e[1]) + 1

\* C1 as amended: for every edge u->v between known nodes of one component,
\* depth(v) >= depth(u) + 1 unless v lies on a directed cycle or is reachable
\* from a node on a directed cycle (a self-loop counts as a cycle).
C1_MonotoneUnlessCycleTainted ==
    DepthsDone =>
        \A e \in KnownEdges(G) :
            (SameComponent(e[1], e[2]) /\ ~CycleTainted(G, e[2]))
                => DepthOf(e[2]) >= DepthOf(e[1]) + 1

\* a finished run on a graph that has a directed cycle and, in the same
\* component, an edge into a node no cycle reaches
C1_Witness ==
    /\ DepthsDone
    /\ \E e \in KnownEdges(G) :
          /\ e[1] # e[2]
          /\ ~CycleTainted(G, e[2])
          /\ \E w \in IdsOf(G) : OnCycle(G, w) /\ SameComponent(w, e[2])
          /\ DepthOf(e[2]) >= DepthOf(e[1]) + 1

\* ------------------------------------------------------------------------
\* C2  Component ordering
\* ------------------------------------------------------------------------
\* C2 as claimed: A before B in the node list and in different components
\* implies offset(component of A) <= offset(component of B).
C2_OrderByAnyMember ==
    DepthsDone =>
        \A a, b \in IdsOf(G) :
            (IndexOf(a) < IndexOf(b) /\ ~SameComponent(a, b))
                => OffsetOf(a) <= OffsetOf(b)

\* C2 as amended: for A and B in different components, if the first-listed
\* node of A's component comes before the first-listed node of B's component
\* then offset(component of A) <= offset(component of B).
C2_OrderByFirstMember ==
    DepthsDone =>
        \A a, b \in IdsOf(G) :
            (FirstIndexOfComponent(a) < FirstIndexOfComponent(b) /\ ~SameComponent(a, b))
                => OffsetOf(a) <= OffsetOf(b)

\* a finished run where a component that starts first has a member listed
\* after a node of a later component
C2_Witness ==
    /\ DepthsDone
    /\ \E a, b \in IdsOf(G) :
          /\ ~SameComponent(a, b)
          /\ FirstIndexOfComponent(a) < FirstIndexOfComponent(b)
          /\ IndexOf(b) < IndexOf(a)
          /\ OffsetOf(a) < OffsetOf(b)

\* ------------------------------------------------------------------------
\* C3  Longest-path layering
\* ------------------------------------------------------------------------
ChainGraph ==
    [nodes |-> <<MkNode("A", <<>>), MkNode("B", <<>>), MkNode("C", <<>>)>>,
     edges |-> <<MkEdge("A", "a", "B", "a"), MkEdge("B", "a", "C", "a")>>]

DiamondGraph ==
    [nodes |-> <<MkNode("A", <<>>), MkNode("B", <<>>), MkNode("C", <<>>), MkNode("D", <<>>)>>,
     edges |-> <<MkEdge("A", "a", "B", "a"), MkEdge("A", "a", "C", "a"),
                 MkEdge("B", "a", "D", "a"), MkEdge("C", "a", "D", "a")>>]

ComponentAcyclic(id) == \A m \in Range(st.components[CompIndex(id)]) : ~OnCycle(G, m)

\* C3: in a component whose directed edges are acyclic, the relative depth of
\* every node is the length of the longest directed path ending at it; the
\* chain A->B->C gets 0,1,2 and the diamond's D gets 2.
C3_LongestPathLayering ==
    DepthsDone =>
        /\ \A v \in IdsOf(G) :
              ComponentAcyclic(v) => RelDepthOf(v) = LongestPathTo(G, v)
        /\ G = ChainGraph => (DepthOf("A") = 0 /\ DepthOf("B") = 1 /\ DepthOf("C") = 2)
        /\ G = DiamondGraph => DepthOf("D") = 2

\* the finished run on the diamond
C3_Witness == DepthsDone /\ G = DiamondGraph /\ DepthOf("D") = 2 /\ DepthOf("B") = 1

\* ------------------------------------------------------------------------
\* C4  Termination and totality
\* ------------------------------------------------------------------------
TwoCycleGraph ==
    [nodes |-> <<MkNode("A", <<>>), MkNode("B", <<>>)>>,
     edges |-> <<MkEdge("A", "a", "B", "a"), MkEdge("B", "a", "A", "a")>>]

DepthsTotal ==
    /\ DOMAIN st.finalDepths = IdsOf(G)
    /\ \A id \in IdsOf(G) : st.finalDepths[id] \in Nat
    /\ G = TwoCycleGraph => (DepthOf("A") = 0 \/ DepthOf("B") = 0)

RECURSIVE SumLen(_)
SumLen(ss) == IF ss = <<>> THEN 0 ELSE Len(Head(ss)) + SumLen(Tail(ss))

\* An upper bound on the loop iterations still to run, which may go below 0
\* only if a queue dequeues more often than there are nodes: the iterations
\* of the component search (one scan and one exit per list position, one
\* dequeue per node), then the sort, then per component a setup, one dequeue
\* per node, the loop exit and the finish, and the last setup.
DepthsVariant ==
    LET n == Len(G.nodes)
        placed == SumLen(st.components) + (IF st.pc = "bfs" THEN Len(st.component) ELSE 0)
        later == SumLen(SubSeq(st.components, st.c + 1, Len(st.components)))
                    + 3 * (Len(st.components) - st.c) + 1
    IN CASE st.pc = "scan" -> 2 * (n + 1 - st.i) + (n - placed) + 1 + (4 * n + 3)
         [] st.pc = "bfs" -> 2 * (n + 1 - st.i) + (n - placed) + (4 * n + 3)
         [] st.pc = "sort" -> n + 3 * Len(st.components) + 2
         [] st.pc = "setup" ->
                IF st.c > Len(st.components) THEN 1
                ELSE Len(st.components[st.c]) + 3 + later
         [] st.pc = "kahn" -> (Len(st.components[st.c]) - st.head) + 2 + later
         [] st.pc = "finish" -> 1 + later
         [] OTHER -> 0

DepthPcs == {"scan", "bfs", "sort", "setup", "kahn", "finish", "done"}

\* C4: on every input graph the computation ends: it starts at a loop position
\* or at its end, every loop iteration lowers a natural-number bound on the
\* iterations left and leads to a loop position (from which the next iteration
\* can run) or to the end; and at the end every input node has one depth, a
\* natural number; on A->B->A one of the two is 0.
C4_TerminatesTotal ==
    /\ DepthsVariant \in Nat /\ st.pc \in DepthPcs /\ (st.pc = "done" => DepthsTotal)
    /\ [][/\ DepthsVariant' < DepthsVariant
          /\ DepthsVariant' \in Nat
          /\ st'.pc \in DepthPcs
          /\ st'.pc = "done" => DepthsTotal']_vars

\* the finished run on the two-node cycle
C4_Witness == DepthsDone /\ G = TwoCycleGraph /\ DepthsTotal

\* ------------------------------------------------------------------------
\* C5  Component decomposition
\* ------------------------------------------------------------------------
\* C5: two nodes share a component exactly when edges between known nodes,
\* taken as undirected, connect them; every node is in exactly one component,
\* once.
C5_ComponentsAreConnectivityClasses ==
    DepthsDone =>
        /\ \A a, b \in IdsOf(G) : SameComponent(a, b) <=> b \in Connected(G, {a})
        /\ \A a \in IdsOf(G) :
              Cardinality({c \in 1..Len(st.components) : a \in Range(st.components[c])}) = 1
        /\ \A c \in 1..Len(st.components) :
              /\ st.components[c] # <<>>
              /\ Cardinality(Range(st.components[c])) = Len(st.components[c])

\* a finished run with a two-node component joined only by an edge that points
\* against the list order, a singleton with a self-loop, and a dangling edge
C5_Witness ==
    /\ DepthsDone
    /\ \E a, b, d \in IdsOf(G) :
          /\ IndexOf(a) < IndexOf(b)
          /\ <<b, a>> \in KnownEdges(G) /\ <<a, b>> \notin KnownEdges(G)
          /\ SameComponent(a, b)
          /\ <<d, d>> \in KnownEdges(G)
          /\ Range(st.components[CompIndex(d)]) = {d}
    /\ \E k \in 1..Len(G.edges) : G.edges[k].targetNodeId = UnknownId

\* ------------------------------------------------------------------------
\* C6  Non-negativity of the layout result
\* ------------------------------------------------------------------------
\* the nodes are a layout result: laid out and not dragged since
LayoutResult == Mounted /\ nodes # <<>> /\ dragCount = 0

BoxLeft(node) == Val(node.x) - Px(NODE_WIDTH) \div 2

BoxTop(node) == Val(node.y) - Px(HEADER_HEIGHT + Len(node.columns) * COLUMN_HEIGHT) \div 2

\* C6: in every layout result every node has x - NODE_WIDTH/2 >= 50 and
\* y - height/2 >= 50, with height = HEADER_HEIGHT + columnCount * COLUMN_HEIGHT.
C6_NonNegative ==
    LayoutResult =>
        \A k \in 1..Len(nodes) :
            /\ IsSome(nodes[k].x) /\ IsSome(nodes[k].y)
            /\ BoxLeft(nodes[k]) >= Px(50)
            /\ BoxTop(nodes[k]) >= Px(50)

\* a layout result whose provisional top edge was above the padding and was
\* shifted onto it, with two boxes of different heights
C6_Witness ==
    /\ LayoutResult
    /\ \E k, j \in 1..Len(nodes) :
          /\ Len(nodes[k].columns) # Len(nodes[j].columns)
          /\ BoxTop(nodes[k]) = Px(50)
          /\ LET prov == ProvisionalNodes(G, st.finalDepths, height)
             IN BoxTop(prov[k]) < Px(50)

\* ------------------------------------------------------------------------
\* C7  Pin persistence
\* ------------------------------------------------------------------------
Pinned(node) == IsSome(node.fx)

\* C7: within one graph instance, a node that has been dragged keeps its
\* position (and its pin, which equals the position) in every step that is
\* not a drag of that node: a selection, a clear, a render, a drag of another
\* node; and the layout effect never runs once a node is pinned.
C7_PinPersistence ==
    [][(Mounted /\ lineageData' = lineageData) =>
         \A k \in 1..Len(nodes) :
             Pinned(nodes[k]) =>
                 /\ ~LayoutEffect
                 /\ Len(nodes') = Len(nodes)
                 /\ (~(\E d \in Deltas : Drag(nodes[k].id, d))) => nodes'[k] = nodes[k]
                 /\ nodes'[k].x = nodes'[k].fx /\ nodes'[k].y = nodes'[k].fy]_vars

\* two nodes have been dragged (so one was dragged after the other was
\* pinned), the view has re-rendered and an edge is selected
C7_Witness ==
    /\ Mounted
    /\ \E k, j \in 1..Len(nodes) : k # j /\ Pinned(nodes[k]) /\ Pinned(nodes[j])
    /\ rendered = nodes
    /\ IsSome(selectedEdge)

\* ------------------------------------------------------------------------
\* C8  Edge classification
\* ------------------------------------------------------------------------
\* the emphasis a style stands for (lines 415, 423, 425)
Emphasis(style) ==
    CASE style.stroke = "#2563eb" /\ style.isRelated -> "Related"
      [] style.stroke = "#d1d5db" /\ ~style.isRelated -> "Unrelated"
      [] style.stroke = "#9ca3af" /\ ~style.isRelated -> "Neutral"
      [] OTHER -> "Mixed"

SharesSource(c, e) == <<c.sourceNodeId, c.sourceColumn>> = <<e.sourceNodeId, e.sourceColumn>>

SharesTarget(c, e) == <<c.targetNodeId, c.targetColumn>> = <<e.targetNodeId, e.targetColumn>>

\* C8: with no selected edge every edge is Neutral; with selected edge e an
\* edge c is Related exactly when it shares e's (source node, source column)
\* or e's (target node, target column), and Unrelated otherwise; e is Related.
C8_EdgeClassification ==
    Mounted =>
        \A k \in 1..Len(G.edges) :
            LET c == G.edges[k]
                emphasis == Emphasis(getEdgeStyle(c, selectedEdge))
            IN IF ~IsSome(selectedEdge) THEN emphasis = "Neutral"
               ELSE LET e == Val(selectedEdge) IN
                    /\ (SharesSource(c, e) \/ SharesTarget(c, e)) => emphasis = "Related"
                    /\ ~(SharesSource(c, e) \/ SharesTarget(c, e)) => emphasis = "Unrelated"
                    /\ Emphasis(getEdgeStyle(e, selectedEdge)) = "Related"

\* an edge is selected and the other edge leaves the same node by another
\* column and enters another target: it is Unrelated
C8_Witness ==
    /\ Mounted /\ IsSome(selectedEdge)
    /\ \E k \in 1..Len(G.edges) :
          LET c == G.edges[k]
              e == Val(selectedEdge)
          IN /\ c.sourceNodeId = e.sourceNodeId /\ c.sourceColumn # e.sourceColumn
             /\ c.targetNodeId = e.targetNodeId /\ c.targetColumn # e.targetColumn
             /\ Emphasis(getEdgeStyle(c, selectedEdge)) = "Unrelated"

\* ------------------------------------------------------------------------
\* C9  Edge geometry is null exactly for unresolved end points
\* ------------------------------------------------------------------------
Resolved(ns, id) == \E k \in 1..Len(ns) : ns[k].id = id

\* C9: for the nodes held and for the nodes last rendered, an edge has no
\* geometry exactly when its source id or its target id is not the id of one
\* of these nodes.
C9_NullIffUnresolved ==
    Mounted =>
        \A k \in 1..Len(G.edges) :
            /\ EdgeGeometry(nodes, G.edges[k]) = None
                  <=> (~Resolved(nodes, G.edges[k].sourceNodeId)
                         \/ ~Resolved(nodes, G.edges[k].targetNodeId))
            /\ EdgeGeometry(rendered, G.edges[k]) = None
                  <=> (~Resolved(rendered, G.edges[k].sourceNodeId)
                         \/ ~Resolved(rendered, G.edges[k].targetNodeId))

\* a laid-out graph with a self-loop that is drawn and a dangling edge that
\* is not
C9_Witness ==
    /\ Mounted /\ nodes # <<>>
    /\ \E k, j \in 1..Len(G.edges) :
          /\ G.edges[k].sourceNodeId = G.edges[k].targetNodeId
          /\ IsSome(EdgeGeometry(nodes, G.edges[k]))
          /\ G.edges[j].targetNodeId = UnknownId
          /\ Resolved(nodes, G.edges[j].sourceNodeId)
          /\ EdgeGeometry(nodes, G.edges[j]) = None

\* ------------------------------------------------------------------------
\* C10  Edges that name an absent column
\* ------------------------------------------------------------------------
HasColumn(ns, id, columnName) ==
    \E k \in 1..Len(ns) : ns[k].id = id /\ columnName \in Range(ns[k].columns)

\* C10 as claimed: an edge whose two node ids resolve but whose source or
\* target column is not a column of that node has no geometry.
C10_AbsentColumnNotDrawn ==
    Mounted =>
        \A k \in 1..Len(G.edges) :
            LET e == G.edges[k] IN
            (/\ Resolved(nodes, e.sourceNodeId) /\ Resolved(nodes, e.targetNodeId)
             /\ \/ ~HasColumn(nodes, e.sourceNodeId, e.sourceColumn)
                \/ ~HasColumn(nodes, e.targetNodeId, e.targetColumn))
                => EdgeGeometry(nodes, e) = None

\* ------------------------------------------------------------------------
\* C11  Drag and selection are independent and commute
\* ------------------------------------------------------------------------
\* the nodes a drag event on the box of id with delta d leaves, from nodes ns
\* and the last render rend
DragUpdate(ns, rend, id, d) ==
    HandleNodeDrag(ns, id, DragPosition(NodeMapGet(rend, id), d[1], d[2]))

\* a step that delivers a drag to this graph (only drags count them)
DragStep == dragCount' = dragCount + 1

\* a step that selects or clears an edge of this graph and is no node click
SelectionStep ==
    /\ selectedEdge' # selectedEdge
    /\ selectedNode' = selectedNode
    /\ lineageData' = lineageData

\* C11: a drag step changes the position and pin of one node only and leaves
\* the selected edge, every other node, all ids, columns and depths unchanged;
\* a selection or clear step leaves all nodes and depths unchanged; and each
\* kind of update reads nothing the other writes (the drag update computed
\* after a selection step equals the one computed before it, an edge can be
\* selected after a drag step exactly when it could before), so the two
\* orders give the same state.
C11_DragSelectCommute ==
    [][/\ DragStep =>
            /\ selectedEdge' = selectedEdge /\ st' = st /\ rendered' = rendered
            /\ Len(nodes') = Len(nodes)
            /\ \E id \in IdsOf(G) \cup {UnknownId} : \A k \in 1..Len(nodes) :
                   /\ nodes[k].id # id => nodes'[k] = nodes[k]
                   /\ nodes'[k].id = nodes[k].id
                   /\ nodes'[k].columns = nodes[k].columns
            /\ \A k \in 1..Len(G.edges) :
                   IsSome(EdgeGeometry(rendered', G.edges[k]))
                      = IsSome(EdgeGeometry(rendered, G.edges[k]))
       /\ SelectionStep =>
            /\ nodes' = nodes /\ st' = st /\ rendered' = rendered
            /\ \A id \in {rendered[k].id : k \in 1..Len(rendered)}, d \in Deltas :
                   DragUpdate(nodes', rendered', id, d) = DragUpdate(nodes, rendered, id, d)]_vars

\* an edge is selected, one node is pinned and the other is not, and the
\* drag has not been rendered yet
C11_Witness ==
    /\ Mounted /\ IsSome(selectedEdge)
    /\ rendered # nodes
    /\ \E k, j \in 1..Len(nodes) : Pinned(nodes[k]) /\ ~Pinned(nodes[j])

\* ------------------------------------------------------------------------
\* C12  A drag of an unknown node id is a no-op
\* ------------------------------------------------------------------------
\* C12: a step in which handleNodeDrag is called with an id that no node of
\* the layout has leaves the nodes (positions, pins, columns), the last
\* render and the selections as they were.
C12_UnknownDragNoOp ==
    [][DragUnknown =>
          /\ nodes' = nodes
          /\ rendered' = rendered
          /\ selectedEdge' = selectedEdge
          /\ selectedNode' = selectedNode]_vars

\* drags have been delivered to a laid-out graph with a selected edge, and
\* no node is pinned: they were drags of an unknown id
C12_Witness ==
    /\ Mounted /\ nodes # <<>> /\ IsSome(selectedEdge)
    /\ dragCount = MaxDrags
    /\ \A k \in 1..Len(nodes) : ~Pinned(nodes[k])

\* ------------------------------------------------------------------------
\* C13  Graph replacement discards derived state
\* ------------------------------------------------------------------------
\* the layout of the displayed graph computed from nothing but the graph and
\* the container height
FreshLayout ==
    IF Len(G.nodes) = 0 THEN <<>> ELSE LayoutNodes(G, nodeDepths(G), height)

\* C13: a step that makes a new graph the displayed one leaves no nodes, no
\* selected edge and no delivered drag, and schedules the layout; until the
\* layout has run there are no nodes and no selection, and from then until
\* the first drag the nodes are exactly the fresh layout of the displayed
\* graph, none of them pinned.
C13_ReplacementDiscards ==
    /\ [](Mounted =>
            /\ layoutPending =>
                  nodes = <<>> /\ rendered = <<>> /\ selectedEdge = None
            /\ (~layoutPending /\ dragCount = 0) =>
                  /\ nodes = FreshLayout
                  /\ \A k \in 1..Len(nodes) : ~Pinned(nodes[k]) /\ ~IsSome(nodes[k].fy))
    /\ [][(IsSome(lineageData') /\ lineageData' # lineageData) =>
             /\ nodes' = <<>> /\ rendered' = <<>>
             /\ selectedEdge' = None
             /\ dragCount' = 0
             /\ layoutPending']_vars

\* a graph of two nodes is displayed in its fresh layout while the sidebar
\* still shows a node that is no node of it: a graph displayed before was
\* replaced
C13_Witness ==
    /\ Mounted /\ ~layoutPending /\ dragCount = 0
    /\ Len(nodes) = 2 /\ nodes = FreshLayout
    /\ selectedEdge = None
    /\ IsSome(selectedNode)
    /\ \A k \in 1..Len(G.nodes) : G.nodes[k] # Val(selectedNode)

\* ------------------------------------------------------------------------
\* C15  Components never share a depth column
\* ------------------------------------------------------------------------
\* per node: its component as a connectivity class, the first input index of
\* that class, and the smallest and largest depth in it
ClassOf == [v \in IdsOf(G) |-> Connected(G, {v})]

ClassStart == [v \in IdsOf(G) |-> SetMin({IndexOf(m) : m \in ClassOf[v]})]

ClassMinDepth == [v \in IdsOf(G) |-> SetMin({DepthOf(m) : m \in ClassOf[v]})]

ClassMaxDepth == [v \in IdsOf(G) |-> SetMax({DepthOf(m) : m \in ClassOf[v]})]

PairsGraph ==
    [nodes |-> <<MkNode("A", <<>>), MkNode("B", <<>>), MkNode("C", <<>>), MkNode("D", <<>>)>>,
     edges |-> <<MkEdge("A", "a", "B", "a"), MkEdge("C", "a", "D", "a")>>]

\* C15: in the finished depths, the smallest depth of a component is the
\* largest depth of the component before it (in the order of their first
\* input indices) plus 2, so the depths of nodes of different components
\* differ by at least 2; for the pairs A->B and C->D, depth(B) < depth(C).
C15_ComponentsApart ==
    DepthsDone =>
        LET start == ClassStart
            lo == ClassMinDepth
            hi == ClassMaxDepth
        IN /\ \A a, b \in IdsOf(G) :
                 start[a] < start[b] =>
                    /\ hi[a] + 2 <= lo[b]
                    /\ (~\E m \in IdsOf(G) : start[a] < start[m] /\ start[m] < start[b])
                          => lo[b] = hi[a] + 2
           /\ G = PairsGraph => DepthOf("B") < DepthOf("C")

\* the finished run on the two pairs: the component of C follows the
\* component of B, B is at 1 and C at 3
C15_Witness ==
    /\ DepthsDone /\ G = PairsGraph
    /\ ClassStart["B"] = 0 /\ ClassStart["C"] = 2
    /\ DepthOf("B") = 1 /\ DepthOf("C") = 3

\* ------------------------------------------------------------------------
\* C16  Cycle fallback policy
\* ------------------------------------------------------------------------
\* the nodes the topological pass never dequeued
NeverDequeued == IdsOf(G) \ st.dequeued

\* C16 as claimed: every node that is never dequeued ends at relative depth 0.
C16_NeverDequeuedAtZero ==
    DepthsDone => \A v \in NeverDequeued : RelDepthOf(v) = 0

\* C16 amended: the never-dequeued nodes are those on or downstream of a
\* directed cycle; such a node ends at relative depth 0 when no node with an
\* edge to it was dequeued, and otherwise at the largest depth(u) + 1 over
\* the dequeued nodes u with an edge to it.
C16_NeverDequeuedKeepsRelaxedDepth ==
    DepthsDone =>
        \A v \in IdsOf(G) :
            /\ v \in NeverDequeued <=> CycleTainted(G, v)
            /\ v \in NeverDequeued =>
                  RelDepthOf(v) =
                     SetMax({0} \cup {RelDepthOf(u) + 1 : u \in Preds(G, v) \cap st.dequeued})

\* a finished run with a never-dequeued node that a dequeued node points to,
\* at a depth above 0, and a never-dequeued node at 0 in the same component
C16_Witness ==
    /\ DepthsDone
    /\ \E v, w \in NeverDequeued :
          /\ SameComponent(v, w)
          /\ Preds(G, v) \cap st.dequeued # {}
          /\ RelDepthOf(v) >= 1
          /\ RelDepthOf(w) = 0

\* ------------------------------------------------------------------------
\* C17  Drag deltas accumulate
\* ------------------------------------------------------------------------
\* C17 as claimed: every drag event with delta (dx, dy) on node n, rendered
\* or not since the previous one, leaves n at the position it had before the
\* event plus (dx, dy).
C17_DeltasAccumulate ==
    [][\A k \in 1..Len(nodes), d \in Deltas :
          Drag(nodes[k].id, d) =>
              /\ Val(nodes'[k].x) = ValOrZero(nodes[k].x) + Px(d[1])
              /\ Val(nodes'[k].y) = ValOrZero(nodes[k].y) + Px(d[2])]_vars

\* ------------------------------------------------------------------------
\* C18  The initial layout is non-overlapping
\* ------------------------------------------------------------------------
BoxRight(node) == Val(node.x) + Px(NODE_WIDTH) \div 2

BoxBottom(node) == Val(node.y) + Px(HEADER_HEIGHT + Len(node.columns) * COLUMN_HEIGHT) \div 2

BoxesApart(a, b) ==
    \/ BoxRight(a) <= BoxLeft(b) \/ BoxRight(b) <= BoxLeft(a)
    \/ BoxBottom(a) <= BoxTop(b) \/ BoxBottom(b) <= BoxTop(a)

LayoutDepth(node) == GetOr(nodeDepths(G), node.id, 0)

\* C18: in every layout result no two boxes intersect; two nodes of the same
\* depth have the same x and the later one in input order lies below, 40 px
\* under the bottom edge of the one before it in the column; two nodes of
\* different depths have centers at least NODE_WIDTH + 120 apart.
C18_NonOverlapping ==
    LayoutResult =>
        \A k, j \in 1..Len(nodes) :
            k < j =>
               /\ BoxesApart(nodes[k], nodes[j])
               /\ LayoutDepth(nodes[k]) = LayoutDepth(nodes[j]) =>
                     /\ nodes[k].x = nodes[j].x
                     /\ BoxTop(nodes[j]) - BoxBottom(nodes[k]) >= Px(40)
                     /\ (~\E i \in (k + 1)..(j - 1) : LayoutDepth(nodes[i]) = LayoutDepth(nodes[k]))
                           => BoxTop(nodes[j]) - BoxBottom(nodes[k]) = Px(40)
               /\ LayoutDepth(nodes[k]) # LayoutDepth(nodes[j]) =>
                     \/ Val(nodes[j].x) - Val(nodes[k].x) >= Px(NODE_WIDTH + 120)
                     \/ Val(nodes[k].x) - Val(nodes[j].x) >= Px(NODE_WIDTH + 120)

\* a layout result with two boxes of different heights in one depth column,
\* shifted down by the normalisation, the second 40 px under the first
C18_Witness ==
    /\ LayoutResult /\ Len(nodes) = 2 /\ height = 301
    /\ LayoutDepth(nodes[1]) = LayoutDepth(nodes[2])
    /\ Len(nodes[1].columns) # Len(nodes[2].columns)
    /\ BoxTop(nodes[1]) = Px(50)
    /\ BoxTop(nodes[2]) - BoxBottom(nodes[1]) = Px(40)

\* ------------------------------------------------------------------------
\* C19  Selection state machine
\* ------------------------------------------------------------------------
\* C19 as claimed: the selected edge becomes edge e only by a click on e,
\* becomes none only by the clear-selection action or by a replacement of the
\* graph, and is left as it is by a click on a node box, by a drag and by
\* closing the sidebar.
C19_SelectionStateMachine ==
    [][/\ (IsSome(selectedEdge') /\ selectedEdge' # selectedEdge) => SelectSome
       /\ (selectedEdge' = None /\ selectedEdge # None) =>
             (ClearSelection \/ lineageData' # lineageData)
       /\ (NodeClickSome \/ DragStep \/ CloseSidebar) => selectedEdge' = selectedEdge]_vars

\* ------------------------------------------------------------------------
\* C20  Edge anchor sides
\* ------------------------------------------------------------------------
HalfWidth == Px(NODE_WIDTH) \div 2

\* C20: for every drawn edge, with source center-x left of target center-x
\* the path leaves the source's right edge and enters 10 px left of the
\* target's left edge; otherwise (source right of target, or equal center-x)
\* it leaves the source's left edge and enters 10 px right of the target's
\* right edge; in a layout result an edge from a smaller to a larger depth
\* has x1 < x2.
C20_AnchorSides ==
    Mounted =>
        \A k \in 1..Len(G.edges) :
            LET e == G.edges[k]
                geometry == EdgeGeometry(nodes, e)
            IN IsSome(geometry) =>
                 LET g == Val(geometry)
                     source == NodeMapGet(nodes, e.sourceNodeId)
                     target == NodeMapGet(nodes, e.targetNodeId)
                     sx == Val(source.x)
                     tx == Val(target.x)
                 IN /\ sx < tx => (g.x1 = sx + HalfWidth /\ g.x2 = tx - HalfWidth - Px(10))
                    /\ sx > tx => (g.x1 = sx - HalfWidth /\ g.x2 = tx + HalfWidth + Px(10))
                    /\ sx = tx => (g.x1 = sx - HalfWidth /\ g.x2 = tx + HalfWidth + Px(10))
                    /\ (LayoutResult /\ LayoutDepth(source) < LayoutDepth(target)) => g.x1 < g.x2

\* a layout result with a drawn self-loop on the back-edge sides and a drawn
\* edge from a smaller to a larger depth with x1 < x2
C20_Witness ==
    /\ LayoutResult
    /\ \E k, j \in 1..Len(G.edges) :
          LET loop == G.edges[k]
              fwd == G.edges[j]
          IN /\ loop.sourceNodeId = loop.targetNodeId
             /\ IsSome(EdgeGeometry(nodes, loop))
             /\ Val(EdgeGeometry(nodes, loop)).x1
                   = Val(NodeMapGet(nodes, loop.sourceNodeId).x) - HalfWidth
             /\ IsSome(EdgeGeometry(nodes, fwd))
             /\ LayoutDepth(NodeMapGet(nodes, fwd.sourceNodeId))
                   < LayoutDepth(NodeMapGet(nodes, fwd.targetNodeId))
             /\ Val(EdgeGeometry(nodes, fwd)).x1 < Val(EdgeGeometry(nodes, fwd)).x2


\* ------------------------------------------------------------------------
\* C21  The layout is a function of the node sequence and the set of
\* resolvable edges
\* ------------------------------------------------------------------------
WithEdges(data, es) == [nodes |-> data.nodes, edges |-> es]

IsResolvable(data, e) == e.sourceNodeId \in IdsOf(data) /\ e.targetNodeId \in IdsOf(data)

\* the resolvable edges of the graph, each once, in order of first occurrence
CanonicalEdges(data) ==
    LET es == data.edges
    IN SelectSeq([k \in 1..Len(es) |->
                     IF /\ IsResolvable(data, es[k])
                        /\ \A j \in 1..(k - 1) : es[j] # es[k]
                     THEN <<es[k]>> ELSE <<>>],
                 LAMBDA x : x # <<>>)

FlattenEdges(xs) == [k \in 1..Len(xs) |-> xs[k][1]]

ReverseEdges(es) == [k \in 1..Len(es) |-> es[Len(es) + 1 - k]]

PermutedEdges(es) ==
    {[k \in 1..Len(es) |-> es[p[k]]] : p \in Permutations(1..Len(es))}

\* depths and positions computed from the edge sequence es over the nodes of
\* the graph are those of the graph itself
SameLayout(es) ==
    LET data == WithEdges(G, es)
        depths == nodeDepths(data)
    IN /\ depths = st.finalDepths
       /\ \A h \in Heights : LayoutNodes(data, depths, h) = LayoutNodes(G, st.finalDepths, h)

HasDuplicateEdge(data) ==
    \E j, k \in 1..Len(data.edges) :
        j < k /\ data.edges[j] = data.edges[k] /\ IsResolvable(data, data.edges[k])

HasDanglingEdge(data) ==
    \E k \in 1..Len(data.edges) : ~IsResolvable(data, data.edges[k])

\* C21: when the depths of a graph are computed, the same depths and the same
\* positions are computed from its resolvable edges taken once each (so
\* duplicates and edges with an unknown end point count for nothing), from its
\* edge sequence reversed, and, for a graph of distinct resolvable edges, from
\* every permutation of its edge sequence.
C21_EdgeSetOnly ==
    DepthsDone =>
        LET canonical == FlattenEdges(CanonicalEdges(G))
        IN /\ SameLayout(canonical)
           /\ SameLayout(ReverseEdges(G.edges))
           /\ G.edges = canonical => \A es \in PermutedEdges(G.edges) : SameLayout(es)

\* depths are computed for a graph with a duplicated edge, a dangling edge and
\* two distinct resolvable edges, one of which lifts a node to depth 2
C21_Witness ==
    /\ DepthsDone
    /\ HasDuplicateEdge(G)
    /\ HasDanglingEdge(G)
    /\ Cardinality(KnownEdges(G)) >= 2
    /\ \E id \in IdsOf(G) : RelDepthOf(id) = 2

\* depths are computed for a graph of three distinct resolvable edges whose
\* sequence has six orders
C21_PermutationCase ==
    /\ DepthsDone
    /\ Len(G.edges) = 3
    /\ G.edges = FlattenEdges(CanonicalEdges(G))
    /\ \E id \in IdsOf(G) : RelDepthOf(id) = 2


\* ------------------------------------------------------------------------
\* C22  The node of the detail sidebar and the displayed graph
\* ------------------------------------------------------------------------
\* C22: whenever the sidebar has a selected node, a lineage graph is held and
\* the selected node is one of its nodes.
C22_SidebarNodeInGraph ==
    IsSome(selectedNode) =>
        /\ IsSome(lineageData)
        /\ \E k \in 1..Len(G.nodes) : G.nodes[k] = Val(selectedNode)

==========================================================================
